---- MODULE Spec2Model ----
(***************************************************************************)
(* The menu bar component (MenuBarInput: template, makeEntries, onClick,   *)
(* blur, visitWebsite) and the Panel tab strip of the Graphite frontend.   *)
(*                                                                         *)
(* Spec       the menu bar: one action per UI event, each the whole of its *)
(*            handler (a focus change dispatches the blur it causes).      *)
(* PanelSpec  the Panel: the parent's props and the tab strip's events.    *)
(* StepSpec   the menu bar's onClick and blur statement by statement.      *)
(***************************************************************************)
EXTENDS Integers, Sequences, FiniteSets, TLC

VARIABLES
    entries,        \* data().entries: the label and the ref of each top-level entry
    menuLists,      \* the MenuList instance of each top-level entry: its isOpen flag
    activeElement,  \* document.activeElement
    thrown,         \* the error the last handler threw, NoError when it returned
    calls,          \* the calls the last event made on editor.instance and window
    lastEvent,      \* the last UI event handled
    tabLabels,      \* Panel prop
    tabActiveIndex, \* Panel prop
    tabCloseButtons,\* Panel prop
    clickAction,    \* Panel prop: TRUE when the parent supplies the callback
    closeAction,    \* Panel prop: TRUE when the parent supplies the callback
    dispatched,     \* the callback calls the last tab strip event made
    panelThrown,    \* the error the last tab strip event's listeners threw, NoError when none
    panelEvent,     \* the last tab strip event
    stack,          \* StepSpec: the handlers in progress, the running one last
    expected        \* StepSpec: what the event being handled leaves when its handlers run one after another

menuVars == <<entries, menuLists, activeElement, thrown, calls, lastEvent>>
panelVars == <<tabLabels, tabActiveIndex, tabCloseButtons, clickAction, closeAction, dispatched, panelThrown, panelEvent>>
stepVars == <<stack, expected>>
vars == <<entries, menuLists, activeElement, thrown, calls, lastEvent,
          tabLabels, tabActiveIndex, tabCloseButtons, clickAction, closeAction, dispatched, panelThrown, panelEvent,
          stack, expected>>

---------------------------------------------------------------------------
(* Calls on the editor instance and on window.                             *)

NoError == ""
NoRefError == "The menu bar floating menu has no associated ref"

\* ref: undefined
Undefined == 0

\* editor.instance.i32_max() and i32_min(): the bounds of a signed 32-bit integer
i32_max == 2147483647
i32_min == -2147483647 - 1

EditorCall(method, args) == [target |-> "editor.instance", method |-> method, args |-> args]
WindowOpen == [target |-> "window", method |-> "open", args |-> <<>>]

\* What an entry's action is: absent, () => undefined, window.open(...), or
\* editor.instance.method(arg) where arg is absent, a literal or the result of
\* another editor.instance call.
NoAction == [kind |-> "none", method |-> "", arg |-> "none", lit |-> 0, argMethod |-> ""]
Noop == [kind |-> "noop", method |-> "", arg |-> "none", lit |-> 0, argMethod |-> ""]
OpenUrl == [kind |-> "window.open", method |-> "", arg |-> "none", lit |-> 0, argMethod |-> ""]
Ed(method) == [kind |-> "editor", method |-> method, arg |-> "none", lit |-> 0, argMethod |-> ""]
EdLit(method, n) == [kind |-> "editor", method |-> method, arg |-> "lit", lit |-> n, argMethod |-> ""]
EdOf(method, argMethod) == [kind |-> "editor", method |-> method, arg |-> "call", lit |-> 0, argMethod |-> argMethod]

\* The value an editor.instance method returns to an argument expression.
EditorReturn(method) ==
    CASE method = "i32_max" -> i32_max
      [] method = "i32_min" -> i32_min
      [] OTHER -> 0

\* Running an action: the calls it makes, in evaluation order (an argument
\* expression is evaluated before the call it is passed to).
RunAction(action) ==
    CASE action.kind = "editor" /\ action.arg = "none" -> <<EditorCall(action.method, <<>>)>>
      [] action.kind = "editor" /\ action.arg = "lit" -> <<EditorCall(action.method, <<action.lit>>)>>
      [] action.kind = "editor" /\ action.arg = "call" ->
            <<EditorCall(action.argMethod, <<>>), EditorCall(action.method, <<EditorReturn(action.argMethod)>>)>>
      [] action.kind = "window.open" -> <<WindowOpen>>
      [] OTHER -> <<>>

---------------------------------------------------------------------------
(* makeEntries: the static menu tree.                                      *)

Item(label, icon, shortcut, action, children) ==
    [label |-> label, icon |-> icon, shortcut |-> shortcut, checkbox |-> FALSE, checked |-> FALSE,
     action |-> action, children |-> children]
CheckboxItem(label, checked) ==
    [label |-> label, icon |-> "", shortcut |-> <<>>, checkbox |-> TRUE, checked |-> checked,
     action |-> NoAction, children |-> <<>>]
TopLevel(label, children) == [label |-> label, ref |-> Undefined, children |-> children]

OpenRecentChildren ==
    << << Item("Reopen Last Closed", "", <<"KeyControl", "KeyShift", "KeyT">>, NoAction, <<>>),
          Item("Clear Recently Opened", "", <<>>, NoAction, <<>>) >>,
       << Item("Some Recent File.gdd", "", <<>>, NoAction, <<>>),
          Item("Another Recent File.gdd", "", <<>>, NoAction, <<>>),
          Item("An Older File.gdd", "", <<>>, NoAction, <<>>),
          Item("Some Other Older File.gdd", "", <<>>, NoAction, <<>>),
          Item("Yet Another Older File.gdd", "", <<>>, NoAction, <<>>) >> >>

FileMenu ==
    TopLevel("File",
      << << Item("New...", "File", <<"KeyControl", "KeyN">>, Ed("request_new_document_dialog"), <<>>),
            Item("Open...", "", <<"KeyControl", "KeyO">>, Ed("open_document"), <<>>),
            Item("Open Recent", "", <<"KeyControl", "KeyShift", "KeyO">>, Noop, OpenRecentChildren) >>,
         << Item("Close", "", <<"KeyControl", "KeyW">>, Ed("close_active_document_with_confirmation"), <<>>),
            Item("Close All", "", <<"KeyControl", "KeyAlt", "KeyW">>, Ed("close_all_documents_with_confirmation"), <<>>) >>,
         << Item("Save", "", <<"KeyControl", "KeyS">>, Ed("save_document"), <<>>),
            Item("Save As...", "", <<"KeyControl", "KeyShift", "KeyS">>, Ed("save_document"), <<>>),
            Item("Save All", "", <<"KeyControl", "KeyAlt", "KeyS">>, NoAction, <<>>),
            CheckboxItem("Auto-Save", TRUE) >>,
         << Item("Import...", "", <<"KeyControl", "KeyI">>, NoAction, <<>>),
            Item("Export...", "", <<"KeyControl", "KeyE">>, Ed("export_document"), <<>>) >>,
         << Item("Quit", "", <<"KeyControl", "KeyQ">>, NoAction, <<>>) >> >>)

\* EditMenu with the Paste entry that makeEntries keeps commented out.
EditMenuWithPaste ==
    TopLevel("Edit",
      << << Item("Undo", "", <<"KeyControl", "KeyZ">>, Ed("undo"), <<>>),
            Item("Redo", "", <<"KeyControl", "KeyShift", "KeyZ">>, Ed("redo"), <<>>) >>,
         << Item("Cut", "", <<"KeyControl", "KeyX">>, Ed("cut"), <<>>),
            Item("Copy", "Copy", <<"KeyControl", "KeyC">>, Ed("copy"), <<>>),
            Item("Paste", "Paste", <<"KeyControl", "KeyV">>, Ed("paste"), <<>>) >> >>)

EditMenu ==
    TopLevel("Edit",
      << << Item("Undo", "", <<"KeyControl", "KeyZ">>, Ed("undo"), <<>>),
            Item("Redo", "", <<"KeyControl", "KeyShift", "KeyZ">>, Ed("redo"), <<>>) >>,
         << Item("Cut", "", <<"KeyControl", "KeyX">>, Ed("cut"), <<>>),
            Item("Copy", "Copy", <<"KeyControl", "KeyC">>, Ed("copy"), <<>>) >> >>)

\* OrderChildren with the deltas of Raise and Lower exchanged.
OrderChildrenSwapped ==
    << << Item("Raise To Front", "", <<"KeyControl", "KeyShift", "KeyLeftBracket">>,
               EdOf("reorder_selected_layers", "i32_max"), <<>>),
          Item("Raise", "", <<"KeyControl", "KeyRightBracket">>, EdLit("reorder_selected_layers", -1), <<>>),
          Item("Lower", "", <<"KeyControl", "KeyLeftBracket">>, EdLit("reorder_selected_layers", 1), <<>>),
          Item("Lower to Back", "", <<"KeyControl", "KeyShift", "KeyRightBracket">>,
               EdOf("reorder_selected_layers", "i32_min"), <<>>) >> >>

OrderChildren ==
    << << Item("Raise To Front", "", <<"KeyControl", "KeyShift", "KeyLeftBracket">>,
               EdOf("reorder_selected_layers", "i32_max"), <<>>),
          Item("Raise", "", <<"KeyControl", "KeyRightBracket">>, EdLit("reorder_selected_layers", 1), <<>>),
          Item("Lower", "", <<"KeyControl", "KeyLeftBracket">>, EdLit("reorder_selected_layers", -1), <<>>),
          Item("Lower to Back", "", <<"KeyControl", "KeyShift", "KeyRightBracket">>,
               EdOf("reorder_selected_layers", "i32_min"), <<>>) >> >>

LayerMenu ==
    TopLevel("Layer",
      << << Item("Select All", "", <<"KeyControl", "KeyA">>, Ed("select_all_layers"), <<>>),
            Item("Deselect All", "", <<"KeyControl", "KeyAlt", "KeyA">>, Ed("deselect_all_layers"), <<>>),
            Item("Order", "", <<>>, Noop, OrderChildren) >> >>)

DocumentMenu ==
    TopLevel("Document", << << Item("Menu entries coming soon", "", <<>>, NoAction, <<>>) >> >>)

ViewMenu ==
    TopLevel("View",
      << << Item("Show/Hide Node Graph (In Development)", "", <<>>, Ed("toggle_node_graph_visibility"), <<>>) >> >>)

LogLevelChildren ==
    << << Item("Log Level Info", "", <<"Key1">>, Ed("log_level_info"), <<>>),
          Item("Log Level Debug", "", <<"Key2">>, Ed("log_level_debug"), <<>>),
          Item("Log Level Trace", "", <<"Key3">>, Ed("log_level_trace"), <<>>) >> >>

HelpMenu ==
    TopLevel("Help",
      << << Item("About Graphite", "", <<>>, Ed("request_about_graphite_dialog"), <<>>) >>,
         << Item("Report a Bug", "", <<>>, OpenUrl, <<>>),
            Item("Visit on GitHub", "", <<>>, OpenUrl, <<>>) >>,
         << Item("Debug: Set Log Level", "", <<>>, Noop, LogLevelChildren),
            Item("Debug: Panic (DANGER)", "", <<>>, Ed("intentional_panic"), <<>>) >> >>)

makeEntries == <<FileMenu, EditMenu, LayerMenu, DocumentMenu, ViewMenu, HelpMenu>>

\* The indices of the top-level entries (the v-for of the template).
EntryIndices == 1..Len(makeEntries)

\* entry.children of top-level entry i.  The nested literals are built once
\* by makeEntries and reached only through the entry; the state keeps the
\* entry's own fields and reads the children here.
Children(i) == makeEntries[i].children

\* The place of every entry below a list of sections, at any depth: section
\* and position, then the same within its children.
RECURSIVE PathsOf(_)
PathsOf(children) ==
    UNION { UNION { {<<s, k>>} \cup { <<s, k>> \o p : p \in PathsOf(children[s][k].children) }
                    : k \in 1..Len(children[s]) }
            : s \in 1..Len(children) }

RECURSIVE ItemAt(_, _)
ItemAt(children, path) ==
    IF Len(path) = 2 THEN children[path[1]][path[2]]
    ELSE ItemAt(children[path[1]][path[2]].children, SubSeq(path, 3, Len(path)))

---------------------------------------------------------------------------
(* The DOM of the menu bar template.                                       *)

El(kind, entry) == [kind |-> kind, entry |-> entry]
Null == El("null", 0)
Body == El("body", 0)
\* an element of the page that is not inside the menu bar
Outside == El("outside", 0)
\* <div class="menu-bar-input" data-menu-bar-input>: the component's root
MenuBar == El("menuBar", 0)
LogoButton == El("logoButton", 0)
EntryContainer(i) == El("entryContainer", i)
EntryDiv(i) == El("entryDiv", i)
EntrySpan(i) == El("entrySpan", i)

\* this.$el
ThisEl == MenuBar

parentElement(el) ==
    CASE el.kind = "entrySpan" -> EntryDiv(el.entry)
      [] el.kind = "entryDiv" -> EntryContainer(el.entry)
      [] el.kind = "entryContainer" -> MenuBar
      [] el.kind = "logoButton" -> MenuBar
      [] el.kind = "menuBar" -> Body
      [] el.kind = "outside" -> Body
      [] OTHER -> Null

\* el matches the selector [data-menu-bar-input]
MatchesMenuBarInput(el) == el.kind = "menuBar"

\* Element.closest("[data-menu-bar-input]"): el or its nearest ancestor that matches
RECURSIVE closest(_)
closest(el) ==
    IF el = Null THEN Null
    ELSE IF MatchesMenuBarInput(el) THEN el
    ELSE closest(parentElement(el))

\* Focusable with the label inside an entry taking focus too.
FocusableWithLabels(el) == el.kind \in {"entryDiv", "entrySpan", "logoButton", "outside"}

\* The elements that can take focus: the entries (tabindex="0"), the logo
\* button, and elements elsewhere on the page.
Focusable(el) == el.kind \in {"entryDiv", "logoButton", "outside"}

\* The elements focus can move to by the user's doing; Body when nothing is focused.
FocusTargets == {EntryDiv(i) : i \in EntryIndices} \cup {LogoButton, Outside, Body}

\* What onClick can be handed as e.target: the entry or the label inside it
\* (null for a call without a target).
ClickTargets(i) == {EntryDiv(i), EntrySpan(i), Null}

---------------------------------------------------------------------------
(* The handlers.  Each takes the MenuList flags ml it starts from and      *)
(* returns what it leaves.                                                 *)

blur(e, menuEntry, ml) ==
    IF closest(e.target) # ThisEl /\ entries[menuEntry].ref # Undefined
    THEN [ml EXCEPT ![entries[menuEntry].ref].isOpen = FALSE]
    ELSE ml

\* A focus change from old to new: the blur event the old element receives
\* (only the entries listen to it), handled before the change returns.
DispatchBlur(old, new, ml) ==
    IF old.kind = "entryDiv"
    THEN blur([target |-> old, relatedTarget |-> IF new = Body THEN Null ELSE new], old.entry, ml)
    ELSE ml

\* (target as HTMLElement)?.focus()
focus(target, ml) ==
    IF target # Null /\ Focusable(target) /\ target # activeElement
    THEN [activeElement |-> target,
          menuLists |-> DispatchBlur(activeElement, target, ml),
          blurred |-> IF activeElement.kind = "entryDiv" THEN activeElement.entry ELSE 0]
    ELSE [activeElement |-> activeElement, menuLists |-> ml, blurred |-> 0]

\* onClick toggling the flag instead of setting it.
onClickToggles(menuEntry, target, ml) ==
    LET f == focus(target, ml) IN
    IF entries[menuEntry].ref # Undefined
    THEN [activeElement |-> f.activeElement, blurred |-> f.blurred, thrown |-> NoError,
          menuLists |-> [f.menuLists EXCEPT ![entries[menuEntry].ref].isOpen = ~@]]
    ELSE [activeElement |-> f.activeElement, blurred |-> f.blurred, thrown |-> NoRefError,
          menuLists |-> f.menuLists]

\* onClick without its else branch: a missing ref is passed over in silence.
onClickSilent(menuEntry, target, ml) ==
    LET f == focus(target, ml) IN
    [activeElement |-> f.activeElement, blurred |-> f.blurred, thrown |-> NoError,
     menuLists |-> IF entries[menuEntry].ref # Undefined
                   THEN [f.menuLists EXCEPT ![entries[menuEntry].ref].isOpen = TRUE]
                   ELSE f.menuLists]

\* onClick closing the other entries as it opens the clicked one.
onClickExclusive(menuEntry, target, ml) ==
    LET f == focus(target, ml) IN
    IF entries[menuEntry].ref # Undefined
    THEN [activeElement |-> f.activeElement, blurred |-> f.blurred, thrown |-> NoError,
          menuLists |-> [j \in DOMAIN f.menuLists |-> [isOpen |-> j = entries[menuEntry].ref]]]
    ELSE [activeElement |-> f.activeElement, blurred |-> f.blurred, thrown |-> NoRefError,
          menuLists |-> f.menuLists]

onClick(menuEntry, target, ml) ==
    LET f == focus(target, ml) IN
    IF entries[menuEntry].ref # Undefined
    THEN [activeElement |-> f.activeElement, blurred |-> f.blurred, thrown |-> NoError,
          menuLists |-> [f.menuLists EXCEPT ![entries[menuEntry].ref].isOpen = TRUE]]
    ELSE [activeElement |-> f.activeElement, blurred |-> f.blurred, thrown |-> NoRefError,
          menuLists |-> f.menuLists]

\* MenuList's handling of a click on one of its entries: the entry's action,
\* or the defaultAction it was given when the entry has none.
defaultAction == Ed("request_coming_soon_dialog")
onEntryClick(item) ==
    IF item.action.kind = "none" THEN RunAction(defaultAction) ELSE RunAction(item.action)

visitWebsite == <<WindowOpen>>

\* :ref="(ref) => ref && (entry.ref = ref)": the entry after the callback
setRef(entry, ref) == IF ref # Undefined THEN [entry EXCEPT !.ref = ref] ELSE entry

---------------------------------------------------------------------------
(* The menu bar's events.                                                  *)

Event(kind, entry, item, wasOpen, blurred) ==
    [kind |-> kind, entry |-> entry, item |-> item, wasOpen |-> wasOpen, blurred |-> blurred]

\* @click on a top-level entry
Click(i, target) ==
    LET r == onClick(i, target, menuLists) IN
    /\ menuLists' = r.menuLists
    /\ activeElement' = r.activeElement
    /\ thrown' = r.thrown
    /\ calls' = <<>>
    /\ lastEvent' = Event("click", i, "", menuLists[i].isOpen, r.blurred)
    /\ UNCHANGED entries
    /\ UNCHANGED <<panelVars, stepVars>>

\* The user moves the focus (Tab, a pointer press): the element that had it
\* receives blur.
FocusMove(el) ==
    /\ el # activeElement
    /\ menuLists' = DispatchBlur(activeElement, el, menuLists)
    /\ activeElement' = el
    /\ thrown' = NoError
    /\ calls' = <<>>
    /\ lastEvent' = Event("focus", IF el.kind = "entryDiv" THEN el.entry ELSE 0, "", FALSE,
                          IF activeElement.kind = "entryDiv" THEN activeElement.entry ELSE 0)
    /\ UNCHANGED entries
    /\ UNCHANGED <<panelVars, stepVars>>

\* Vue calls the ref callback of entry i with the entry's MenuList instance
\* once that is mounted and with null when it is unmounted.  The v-for mounts
\* its MenuLists in the order of the entries.
SetRef(i, ref) ==
    /\ IF i = 1 THEN TRUE ELSE entries[i - 1].ref # Undefined
    /\ entries' = [entries EXCEPT ![i] = setRef(entries[i], ref)]
    /\ thrown' = NoError
    /\ calls' = <<>>
    /\ lastEvent' = Event("setRef", i, "", FALSE, 0)
    /\ UNCHANGED <<menuLists, activeElement>>
    /\ UNCHANGED <<panelVars, stepVars>>

\* A click on an entry of the open MenuList of top-level entry i.
Activate(i, path) ==
    /\ entries[i].ref # Undefined
    /\ menuLists[entries[i].ref].isOpen
    /\ calls' = onEntryClick(ItemAt(Children(i), path))
    /\ thrown' = NoError
    /\ lastEvent' = Event("activate", i, ItemAt(Children(i), path).label, TRUE, 0)
    /\ UNCHANGED <<entries, menuLists, activeElement>>
    /\ UNCHANGED <<panelVars, stepVars>>

\* @click on the logo button
VisitWebsite ==
    /\ calls' = visitWebsite
    /\ thrown' = NoError
    /\ lastEvent' = Event("visitWebsite", 0, "", FALSE, 0)
    /\ UNCHANGED <<entries, menuLists, activeElement>>
    /\ UNCHANGED <<panelVars, stepVars>>

MenuInit ==
    /\ entries = [i \in EntryIndices |-> [label |-> makeEntries[i].label, ref |-> makeEntries[i].ref]]
    /\ menuLists = [i \in EntryIndices |-> [isOpen |-> FALSE]]
    /\ activeElement = Body
    /\ thrown = NoError
    /\ calls = <<>>
    /\ lastEvent = Event("init", 0, "", FALSE, 0)

PanelIdle ==
    /\ tabLabels = <<>>
    /\ tabActiveIndex = 0
    /\ tabCloseButtons = FALSE
    /\ clickAction = FALSE
    /\ closeAction = FALSE
    /\ dispatched = <<>>
    /\ panelThrown = NoError
    /\ panelEvent = [kind |-> "init", tabIndex |-> 0]

\* No handler is in progress.
StepIdle ==
    /\ stack = <<>>
    /\ expected = [activeElement |-> Body, blurred |-> 0, thrown |-> NoError,
                   menuLists |-> [i \in EntryIndices |-> [isOpen |-> FALSE]],
                   before |-> [i \in EntryIndices |-> [isOpen |-> FALSE]]]

Init == MenuInit /\ PanelIdle /\ StepIdle

Next ==
    \/ \E i \in EntryIndices : \E target \in ClickTargets(i) : Click(i, target)
    \/ \E el \in FocusTargets : FocusMove(el)
    \/ \E i \in EntryIndices : \E ref \in {Undefined, i} : SetRef(i, ref)
    \/ \E i \in EntryIndices : \E path \in PathsOf(Children(i)) : Activate(i, path)
    \/ VisitWebsite

Spec == Init /\ [][Next]_vars

---------------------------------------------------------------------------
(* The menu bar's properties, checked under Spec.                          *)

OpenEntries == { i \in EntryIndices : menuLists[i].isOpen }

\* The focus is inside the menu bar.
FocusInMenuBar == closest(activeElement) = ThisEl

\* C1: after a blur in which the focus leaves the menu bar, no top-level
\* entry is open.
C1_BlurOutsideClosesAll ==
    (lastEvent.kind = "focus" /\ lastEvent.blurred # 0 /\ ~FocusInMenuBar) => OpenEntries = {}

\* C2: at most one top-level entry is open at any time.
C2_OpenExclusive == Cardinality(OpenEntries) <= 1

\* C3: after a click on a top-level entry whose ref is assigned, that entry's
\* MenuList is open, whether or not it was open before.
C3_ClickOpens ==
    (lastEvent.kind = "click" /\ entries[lastEvent.entry].ref # Undefined)
        => menuLists[entries[lastEvent.entry].ref].isOpen

\* A click on an entry that was already open, which is still open.
C3_Witness ==
    /\ lastEvent.kind = "click"
    /\ entries[lastEvent.entry].ref # Undefined
    /\ lastEvent.wasOpen
    /\ menuLists[entries[lastEvent.entry].ref].isOpen

\* C6: a click on an entry without a ref throws the no-ref error and leaves
\* every open flag as it was; no other event of the menu bar throws, and what
\* is thrown is only ever that error.
C6_NoRefThrows ==
    [][ /\ (lastEvent'.kind = "click" /\ entries[lastEvent'.entry].ref = Undefined)
            => (thrown' = NoRefError /\ menuLists' = menuLists)
        /\ thrown' # NoError
            => (thrown' = NoRefError /\ lastEvent'.kind = "click" /\ entries[lastEvent'.entry].ref = Undefined)
      ]_vars

\* A click on an entry without a ref has thrown, after the blur of an open
\* entry was handled within it.
C6_Witness ==
    /\ lastEvent.kind = "click"
    /\ entries[lastEvent.entry].ref = Undefined
    /\ lastEvent.blurred # 0
    /\ menuLists[lastEvent.blurred].isOpen
    /\ thrown = NoRefError

\* The methods section 6 of the specification lists.
SpecInterface ==
    {"request_new_document_dialog", "open_document", "close_active_document_with_confirmation",
     "close_all_documents_with_confirmation", "save_document", "export_document", "undo", "redo",
     "cut", "copy", "select_all_layers", "deselect_all_layers", "reorder_selected_layers",
     "toggle_node_graph_visibility", "request_about_graphite_dialog", "log_level_info",
     "log_level_debug", "log_level_trace", "intentional_panic"}

EditorMethodsCalled == { calls[k].method : k \in { n \in 1..Len(calls) : calls[n].target = "editor.instance" } }

\* C7 as stated: every method the menu bar invokes on the editor instance is
\* one of the listed ones.
C7_OnlyListedMethods == EditorMethodsCalled \subseteq SpecInterface

\* C7 as amended: every method the menu bar invokes on the editor instance is
\* one of the listed ones or request_coming_soon_dialog, i32_max or i32_min.
C7_ListedOrComingSoonOrBounds ==
    EditorMethodsCalled \subseteq (SpecInterface \cup {"request_coming_soon_dialog", "i32_max", "i32_min"})

\* An activation has invoked a method that the list leaves out.
C7_Witness ==
    /\ lastEvent.kind = "activate"
    /\ EditorMethodsCalled \cap {"request_coming_soon_dialog", "i32_max", "i32_min"} # {}

\* C8: a click or a blur leaves the entries as they are (label and ref of
\* each, their number and order; the children, with their icons, shortcuts,
\* checkboxes and actions, are the literals of makeEntries, which no handler
\* writes), and changes the open flag of no entry other than the clicked or
\* blurred one.
C8_OnlyOpenFlagWritten ==
    [][ lastEvent'.kind \in {"click", "focus"} =>
          /\ entries' = entries
          /\ DOMAIN menuLists' = DOMAIN menuLists
          /\ \A j \in EntryIndices :
                (j # lastEvent'.blurred /\ ~(lastEvent'.kind = "click" /\ j = lastEvent'.entry))
                    => menuLists'[j] = menuLists[j]
      ]_vars

\* A click has opened an entry while another entry is open.
C8_Witness ==
    /\ lastEvent.kind = "click"
    /\ ~lastEvent.wasOpen
    /\ lastEvent.entry \in OpenEntries
    /\ OpenEntries # {lastEvent.entry}

\* The delta of each entry of Layer > Order.
OrderDelta(label) ==
    CASE label = "Raise" -> 1
      [] label = "Lower" -> -1
      [] label = "Raise To Front" -> i32_max
      [] label = "Lower to Back" -> i32_min

ReorderCalls == SelectSeq(calls, LAMBDA c : c.target = "editor.instance" /\ c.method = "reorder_selected_layers")

\* C10: activating an entry of Layer > Order makes exactly one
\* reorder_selected_layers call, with the delta of that entry, which fits a
\* signed 32-bit integer.
C10_OrderDeltas ==
    (lastEvent.kind = "activate" /\ lastEvent.item \in {"Raise", "Lower", "Raise To Front", "Lower to Back"})
        => /\ Len(ReorderCalls) = 1
           /\ ReorderCalls[1].args = <<OrderDelta(lastEvent.item)>>
           /\ ReorderCalls[1].args[1] >= i32_min
           /\ ReorderCalls[1].args[1] <= i32_max

\* Lower to Back has been activated.
C10_Witness ==
    /\ lastEvent.kind = "activate"
    /\ lastEvent.item = "Lower to Back"
    /\ Len(ReorderCalls) = 1

---------------------------------------------------------------------------
(* The Panel: its props, and the events of its tab strip.                  *)

\* The most tabs the parent passes.
MaxTabs == 2

TabLabelSet == {"Untitled Document", "Properties"}

\* tabLabels: any array of strings
TabLabelLists == UNION { [1..n -> TabLabelSet] : n \in 0..MaxTabs }

\* tabActiveIndex: any number; below, within and above the positions of the tabs
TabActiveIndices == -1..MaxTabs

\* The positions the v-for renders a tab for (tabIndex counts from 0).
TabIndices == 0..(Len(tabLabels) - 1)

CallbackCall(fn, index) == [fn |-> fn, index |-> index]

\* Calling a prop the parent did not supply: undefined is not a function.
NotAFunction == "TypeError"

\* What a listener leaves: whether it stopped the event's propagation, the
\* callbacks it called and the error it threw.  e is TRUE when the listener
\* was handed the event.
NoListener == [stopped |-> FALSE, called |-> <<>>, thrown |-> NoError]

\* The tab's click listener handing clickAction the active index.
TabClickListenerActive(e, tabIndex) ==
    [stopped |-> e,
     called |-> IF clickAction THEN <<CallbackCall("clickAction", tabActiveIndex)>> ELSE <<>>,
     thrown |-> NoError]

\* The tab's click listener calling clickAction without the optional chaining.
TabClickListenerRequired(e, tabIndex) ==
    [stopped |-> e,
     called |-> IF clickAction THEN <<CallbackCall("clickAction", tabIndex)>> ELSE <<>>,
     thrown |-> IF clickAction THEN NoError ELSE NotAFunction]

\* @click="(e) => (e?.stopPropagation(), clickAction?.(tabIndex))"
TabClickListener(e, tabIndex) ==
    [stopped |-> e,
     called |-> IF clickAction THEN <<CallbackCall("clickAction", tabIndex)>> ELSE <<>>,
     thrown |-> NoError]

\* @click.middle="(e) => (e?.stopPropagation(), closeAction?.(tabIndex))"
TabMiddleClickListener(e, tabIndex) ==
    [stopped |-> e,
     called |-> IF closeAction THEN <<CallbackCall("closeAction", tabIndex)>> ELSE <<>>,
     thrown |-> NoError]

\* The close button's action leaving the event to bubble on.
CloseButtonActionBubbles(e, tabIndex) ==
    [stopped |-> FALSE,
     called |-> IF closeAction THEN <<CallbackCall("closeAction", tabIndex)>> ELSE <<>>,
     thrown |-> NoError]

\* IconButton :action="(e) => (e?.stopPropagation(), closeAction?.(tabIndex))"
CloseButtonAction(e, tabIndex) ==
    [stopped |-> e,
     called |-> IF closeAction THEN <<CallbackCall("closeAction", tabIndex)>> ELSE <<>>,
     thrown |-> NoError]

\* The DOM events of one press and release of a mouse button on an element:
\* a click follows for the primary button, an auxclick for any other.
MouseEvents(button) == <<"mousedown", "mouseup", IF button = "left" THEN "click" ELSE "auxclick">>

\* The listeners the template gives a tab: @click listens for click,
\* @click.middle listens for mouseup and returns unless the button is the
\* middle one.
TabListeners(type, button, tabIndex) ==
    IF type = "click" THEN TabClickListener(TRUE, tabIndex)
    ELSE IF type = "mouseup" /\ button = "middle" THEN TabMiddleClickListener(TRUE, tabIndex)
    ELSE NoListener

\* The IconButton's own listener: its button's click runs the action prop
\* with the click event.
IconButtonListeners(type, button, tabIndex) ==
    IF type = "click" THEN CloseButtonAction(TRUE, tabIndex) ELSE NoListener

\* v-if="tabCloseButtons": the tabs that have a close button.
CloseButtonRendered(tabIndex) == tabCloseButtons

\* An event that bubbles from an inner listener to the tab's: the tab's
\* listener runs unless the inner one stopped the propagation.
Bubble(inner, outer) ==
    IF inner.stopped THEN inner
    ELSE [stopped |-> outer.stopped,
          called |-> inner.called \o outer.called,
          thrown |-> IF inner.thrown # NoError THEN inner.thrown ELSE outer.thrown]

\* What the listeners leave for each event of a press and release on the
\* body of tab tabIndex, and on its close button.
TabGesture(button, tabIndex) ==
    [k \in 1..Len(MouseEvents(button)) |-> TabListeners(MouseEvents(button)[k], button, tabIndex)]

CloseButtonGesture(button, tabIndex) ==
    [k \in 1..Len(MouseEvents(button)) |->
        Bubble(IconButtonListeners(MouseEvents(button)[k], button, tabIndex),
               TabListeners(MouseEvents(button)[k], button, tabIndex))]

\* The callbacks called, in order, and the first error thrown by a sequence
\* of listener results.
RECURSIVE CalledBy(_)
CalledBy(results) ==
    IF results = <<>> THEN <<>> ELSE Head(results).called \o CalledBy(Tail(results))

RECURSIVE ThrownBy(_)
ThrownBy(results) ==
    IF results = <<>> THEN NoError
    ELSE IF Head(results).thrown # NoError THEN Head(results).thrown
    ELSE ThrownBy(Tail(results))

\* A tab marked active by its position counted from 1.
TabClassOneBased(tabIndex) == [tab |-> TRUE, active |-> tabIndex + 1 = tabActiveIndex]

\* class="tab" :class="{ active: tabIndex === tabActiveIndex }"
TabClass(tabIndex) == [tab |-> TRUE, active |-> tabIndex = tabActiveIndex]

\* The rendered tabs that carry the active class.
ActiveTabs == { tabIndex \in TabIndices : TabClass(tabIndex).active }

PanelEvent(kind, tabIndex) == [kind |-> kind, tabIndex |-> tabIndex]

\* A primary click on the body of tab tabIndex.
TabClick(tabIndex) ==
    /\ dispatched' = CalledBy(TabGesture("left", tabIndex))
    /\ panelThrown' = ThrownBy(TabGesture("left", tabIndex))
    /\ panelEvent' = PanelEvent("click", tabIndex)
    /\ UNCHANGED <<tabLabels, tabActiveIndex, tabCloseButtons, clickAction, closeAction>>
    /\ UNCHANGED <<menuVars, stepVars>>

\* A middle click on tab tabIndex.
TabMiddleClick(tabIndex) ==
    /\ dispatched' = CalledBy(TabGesture("middle", tabIndex))
    /\ panelThrown' = ThrownBy(TabGesture("middle", tabIndex))
    /\ panelEvent' = PanelEvent("middle", tabIndex)
    /\ UNCHANGED <<tabLabels, tabActiveIndex, tabCloseButtons, clickAction, closeAction>>
    /\ UNCHANGED <<menuVars, stepVars>>

\* The close button's click removing the tab from the Panel's own tabLabels.
CloseButtonClickSplices(tabIndex) ==
    /\ CloseButtonRendered(tabIndex)
    /\ dispatched' = CalledBy(CloseButtonGesture("left", tabIndex))
    /\ panelThrown' = ThrownBy(CloseButtonGesture("left", tabIndex))
    /\ panelEvent' = PanelEvent("closeButton", tabIndex)
    /\ tabLabels' = SubSeq(tabLabels, 1, tabIndex) \o SubSeq(tabLabels, tabIndex + 2, Len(tabLabels))
    /\ UNCHANGED <<tabActiveIndex, tabCloseButtons, clickAction, closeAction>>
    /\ UNCHANGED <<menuVars, stepVars>>

\* A primary click on the close button of tab tabIndex, which is rendered
\* when tabCloseButtons is set; the click bubbles on to the tab.
CloseButtonClick(tabIndex) ==
    /\ CloseButtonRendered(tabIndex)
    /\ dispatched' = CalledBy(CloseButtonGesture("left", tabIndex))
    /\ panelThrown' = ThrownBy(CloseButtonGesture("left", tabIndex))
    /\ panelEvent' = PanelEvent("closeButton", tabIndex)
    /\ UNCHANGED <<tabLabels, tabActiveIndex, tabCloseButtons, clickAction, closeAction>>
    /\ UNCHANGED <<menuVars, stepVars>>

\* The parent renders the Panel with new props.
ParentRender(labels, index, closeButtons, click, close) ==
    /\ tabLabels' = labels
    /\ tabActiveIndex' = index
    /\ tabCloseButtons' = closeButtons
    /\ clickAction' = click
    /\ closeAction' = close
    /\ dispatched' = <<>>
    /\ panelThrown' = NoError
    /\ panelEvent' = PanelEvent("render", 0)
    /\ UNCHANGED <<menuVars, stepVars>>

PanelInit ==
    /\ tabLabels \in TabLabelLists
    /\ tabActiveIndex \in TabActiveIndices
    /\ tabCloseButtons \in BOOLEAN
    /\ clickAction \in BOOLEAN
    /\ closeAction \in BOOLEAN
    /\ dispatched = <<>>
    /\ panelThrown = NoError
    /\ panelEvent = PanelEvent("init", 0)

PanelSpecInit == MenuInit /\ PanelInit /\ StepIdle

PanelNext ==
    \/ \E tabIndex \in TabIndices : TabClick(tabIndex)
    \/ \E tabIndex \in TabIndices : TabMiddleClick(tabIndex)
    \/ \E tabIndex \in TabIndices : CloseButtonClick(tabIndex)
    \/ \E labels \in TabLabelLists : \E index \in TabActiveIndices :
         \E closeButtons \in BOOLEAN : \E click \in BOOLEAN : \E close \in BOOLEAN :
             ParentRender(labels, index, closeButtons, click, close)

PanelSpec == PanelSpecInit /\ [][PanelNext]_vars

---------------------------------------------------------------------------
(* The Panel's properties, checked under PanelSpec.                        *)

ActiveIndexInBounds == 0 <= tabActiveIndex /\ tabActiveIndex < Len(tabLabels)

TabEventKinds == {"click", "middle", "closeButton"}

\* C4 as stated: in every state of a Panel the active index is within the
\* bounds of the tab list.
C4_ActiveIndexInBounds == ActiveIndexInBounds

\* C4 as amended: the Panel's own events change neither tabLabels nor
\* tabActiveIndex, so an index the parent passed within bounds is within
\* bounds after any click or close dispatch.
C4_PanelKeepsIndex ==
    [][ panelEvent'.kind \in TabEventKinds =>
          /\ tabLabels' = tabLabels
          /\ tabActiveIndex' = tabActiveIndex
          /\ ActiveIndexInBounds => ActiveIndexInBounds'
      ]_vars

\* The close of the active tab, the last one, has been dispatched and the
\* index is within bounds.
C4_Witness ==
    /\ panelEvent.kind = "closeButton"
    /\ panelEvent.tabIndex = tabActiveIndex
    /\ tabActiveIndex = Len(tabLabels) - 1
    /\ dispatched = <<CallbackCall("closeAction", tabActiveIndex)>>
    /\ ActiveIndexInBounds

\* C5: every callback a tab event calls is handed the position of the tab
\* that received the event, which is a position of tabLabels; a primary click
\* calls clickAction, a middle click or a click on the close button calls
\* closeAction (when the parent supplied it).
C5_DispatchByIndex ==
    panelEvent.kind \in TabEventKinds =>
        /\ panelEvent.tabIndex >= 0
        /\ panelEvent.tabIndex < Len(tabLabels)
        /\ \A k \in 1..Len(dispatched) : dispatched[k].index = panelEvent.tabIndex
        /\ (panelEvent.kind = "click" /\ clickAction)
              => \E k \in 1..Len(dispatched) : dispatched[k].fn = "clickAction"
        /\ (panelEvent.kind \in {"middle", "closeButton"} /\ closeAction)
              => \E k \in 1..Len(dispatched) : dispatched[k].fn = "closeAction"

\* A tab other than the active one, not the first, has dispatched its close.
C5_Witness ==
    /\ panelEvent.kind = "closeButton"
    /\ panelEvent.tabIndex > 0
    /\ panelEvent.tabIndex # tabActiveIndex
    /\ dispatched = <<CallbackCall("closeAction", panelEvent.tabIndex)>>

Count(fn) == Cardinality({ k \in 1..Len(dispatched) : dispatched[k].fn = fn })

\* C11: closing a tab never also selects it.  A click on the close button of
\* tab i or a middle click on tab i calls closeAction(i) exactly once (the
\* parent having supplied it) and never clickAction; a primary click on the
\* body of tab i calls clickAction(i) exactly once (the parent having
\* supplied it) and never closeAction.
C11_CloseNeverSelects ==
    /\ panelEvent.kind \in {"middle", "closeButton"} =>
          /\ Count("clickAction") = 0
          /\ dispatched = IF closeAction
                          THEN <<CallbackCall("closeAction", panelEvent.tabIndex)>>
                          ELSE <<>>
    /\ panelEvent.kind = "click" =>
          /\ Count("closeAction") = 0
          /\ dispatched = IF clickAction
                          THEN <<CallbackCall("clickAction", panelEvent.tabIndex)>>
                          ELSE <<>>

\* The close button of a tab has been clicked in a Panel that has both
\* callbacks: closeAction alone was called.
C11_Witness ==
    /\ panelEvent.kind = "closeButton"
    /\ clickAction
    /\ closeAction
    /\ Count("closeAction") = 1
    /\ Count("clickAction") = 0

\* C12: clickAction and closeAction are optional.  In a Panel whose parent
\* supplied neither, no tab click, middle click or close-button click throws
\* or calls anything; the close button is there to be clicked only when
\* tabCloseButtons is true; a middle click calls closeAction(i) whatever
\* tabCloseButtons is.
C12_CallbacksOptional ==
    /\ panelEvent.kind \in TabEventKinds => panelThrown = NoError
    /\ (panelEvent.kind \in TabEventKinds /\ ~clickAction /\ ~closeAction) => dispatched = <<>>
    /\ panelEvent.kind = "closeButton" => tabCloseButtons
    /\ \A tabIndex \in TabIndices : CloseButtonRendered(tabIndex) <=> tabCloseButtons
    /\ (panelEvent.kind = "middle" /\ closeAction) =>
          dispatched = <<CallbackCall("closeAction", panelEvent.tabIndex)>>

\* A tab has been clicked in a Panel without callbacks and without close
\* buttons.
C12_Witness ==
    /\ panelEvent.kind = "click"
    /\ ~clickAction
    /\ ~closeAction
    /\ ~tabCloseButtons
    /\ dispatched = <<>>
    /\ panelThrown = NoError

\* A middle click has closed a tab of a Panel without close buttons.
C12_MiddleWitness ==
    /\ panelEvent.kind = "middle"
    /\ ~tabCloseButtons
    /\ dispatched = <<CallbackCall("closeAction", panelEvent.tabIndex)>>

\* C13: a tab carries the active class exactly when its position equals
\* tabActiveIndex.  At most one tab is active; exactly one is when
\* 0 <= tabActiveIndex < tabLabels.length, and it is the tab at
\* tabActiveIndex; none is when tabActiveIndex is out of bounds.
C13_ActiveTab ==
    /\ Cardinality(ActiveTabs) <= 1
    /\ ActiveIndexInBounds => ActiveTabs = {tabActiveIndex}
    /\ ~ActiveIndexInBounds => ActiveTabs = {}
    /\ \A tabIndex \in TabIndices : TabClass(tabIndex).tab

\* The parent has passed two tabs and the second as the active one.
C13_Witness ==
    /\ panelEvent.kind = "render"
    /\ Len(tabLabels) = 2
    /\ tabActiveIndex = 1
    /\ ActiveTabs = {1}

\* The parent has passed an index one past the last tab: no tab is active.
C13_OutOfBoundsWitness ==
    /\ panelEvent.kind = "render"
    /\ Len(tabLabels) > 0
    /\ tabActiveIndex = Len(tabLabels)
    /\ ActiveTabs = {}

---------------------------------------------------------------------------
(* StepSpec: the menu bar's handlers statement by statement.  The browser  *)
(* runs one event's listeners to completion before it takes the next       *)
(* event; the one handler that starts while another is in progress is the  *)
(* blur listener that focus() dispatches before it returns.                *)

Frame(handler, entry, target, related, pc) ==
    [handler |-> handler, entry |-> entry, target |-> target, related |-> related, pc |-> pc]

Top == stack[Len(stack)]
Pop == SubSeq(stack, 1, Len(stack) - 1)

\* What the handlers of an event leave when run one after another, and the
\* flags the event started from.
Expect(result, before) ==
    [activeElement |-> result.activeElement, blurred |-> result.blurred, thrown |-> result.thrown,
     menuLists |-> result.menuLists, before |-> before]

\* A click event arrives: onClick is entered.
BeginClick(i, target) ==
    /\ stack = <<>>
    /\ stack' = <<Frame("onClick", i, target, Null, "focus")>>
    /\ expected' = Expect(onClick(i, target, menuLists), menuLists)
    /\ thrown' = NoError
    /\ calls' = <<>>
    /\ lastEvent' = Event("click", i, "", menuLists[i].isOpen, 0)
    /\ UNCHANGED <<entries, menuLists, activeElement, panelVars>>

\* onClick: (target as HTMLElement)?.focus().  When the focus leaves an
\* entry, that entry's blur listener is entered before focus() returns.
StepFocus ==
    /\ stack # <<>>
    /\ Top.handler = "onClick"
    /\ Top.pc = "focus"
    /\ LET moves == Top.target # Null /\ Focusable(Top.target) /\ Top.target # activeElement
           blurs == moves /\ activeElement.kind = "entryDiv"
       IN /\ activeElement' = IF moves THEN Top.target ELSE activeElement
          /\ stack' = Pop \o <<[Top EXCEPT !.pc = "write"]>>
                          \o (IF blurs THEN <<Frame("blur", activeElement.entry, activeElement, Top.target, "test")>>
                              ELSE <<>>)
          /\ lastEvent' = [lastEvent EXCEPT !.blurred = IF blurs THEN activeElement.entry ELSE 0]
    /\ UNCHANGED <<entries, menuLists, thrown, calls, expected, panelVars>>

\* blur: the test and the write it guards.
StepBlur ==
    /\ stack # <<>>
    /\ Top.handler = "blur"
    /\ menuLists' = blur([target |-> Top.target, relatedTarget |-> Top.related], Top.entry, menuLists)
    /\ stack' = Pop
    /\ UNCHANGED <<entries, activeElement, thrown, calls, lastEvent, expected, panelVars>>

\* onClick: if (menuEntry.ref) menuEntry.ref.isOpen = true; else throw.
StepWrite ==
    /\ stack # <<>>
    /\ Top.handler = "onClick"
    /\ Top.pc = "write"
    /\ IF entries[Top.entry].ref # Undefined
       THEN /\ menuLists' = [menuLists EXCEPT ![entries[Top.entry].ref].isOpen = TRUE]
            /\ thrown' = NoError
       ELSE /\ thrown' = NoRefError
            /\ UNCHANGED menuLists
    /\ stack' = Pop
    /\ UNCHANGED <<entries, activeElement, calls, lastEvent, expected, panelVars>>

\* The user moves the focus: the entry that had it enters its blur listener.
BeginFocusMove(el) ==
    /\ stack = <<>>
    /\ el # activeElement
    /\ activeElement' = el
    /\ stack' = IF activeElement.kind = "entryDiv"
                THEN <<Frame("blur", activeElement.entry, activeElement, IF el = Body THEN Null ELSE el, "test")>>
                ELSE <<>>
    /\ expected' = Expect([activeElement |-> el, thrown |-> NoError,
                           blurred |-> IF activeElement.kind = "entryDiv" THEN activeElement.entry ELSE 0,
                           menuLists |-> DispatchBlur(activeElement, el, menuLists)], menuLists)
    /\ thrown' = NoError
    /\ calls' = <<>>
    /\ lastEvent' = Event("focus", IF el.kind = "entryDiv" THEN el.entry ELSE 0, "", FALSE,
                          IF activeElement.kind = "entryDiv" THEN activeElement.entry ELSE 0)
    /\ UNCHANGED <<entries, menuLists, panelVars>>

\* A ref callback, between events.
SetRefBetweenEvents(i, ref) ==
    /\ stack = <<>>
    /\ SetRef(i, ref)

StepInit == MenuInit /\ PanelIdle /\ StepIdle

StepNext ==
    \/ \E i \in EntryIndices : \E target \in ClickTargets(i) : BeginClick(i, target)
    \/ StepFocus
    \/ StepBlur
    \/ StepWrite
    \/ \E el \in FocusTargets : BeginFocusMove(el)
    \/ \E i \in EntryIndices : \E ref \in {Undefined, i} : SetRefBetweenEvents(i, ref)

StepSpec == StepInit /\ [][StepNext]_vars

====
